---- MODULE Spec2Model ----
(***************************************************************************)
(* Model of pyatv's facade layer (pyatv/support/facade.py): the relayers   *)
(* that bind protocols to instances, the feature map of FacadeFeatures,    *)
(* and the lifecycle (add_protocol, connect, close, service) of            *)
(* FacadeAppleTV.                                                          *)
(***************************************************************************)
EXTENDS Integers, Sequences, FiniteSets, TLC

\* ------------------------------------------------------------------------
\* Program constants
\* ------------------------------------------------------------------------

\* facade.py:23
DEFAULT_PRIORITIES == <<"MRP", "DMAP", "Companion", "AirPlay">>

\* const.Protocol: the members of the priority list plus RAOP, which the
\* repository uses (atvremote.py:659) and the priority list leaves out.
Protocols == {"MRP", "DMAP", "Companion", "AirPlay", "RAOP"}

\* The interfaces of FacadeAppleTV.interfaces (facade.py:315-325) that the
\* modelled operations go through.
Interfaces == {"Features", "Stream", "Apps", "RemoteControl", "Metadata",
               "Power", "PushUpdater"}

\* Operations of each interface that a backend may or may not implement.
OpsOf(iface) ==
    CASE iface = "Stream" -> {"play_url", "close"}
      [] iface = "Apps" -> {"app_list", "launch_app"}
      [] iface = "RemoteControl" -> {"up", "play"}
      [] iface = "Metadata" -> {"device_id", "artwork"}
      [] iface = "Power" -> {"turn_on", "turn_off"}
      [] iface = "PushUpdater" -> {"start"}
      [] OTHER -> {}

\* Feature names used as inputs (members of const.FeatureName).
FeatureNames == {"PlayUrl", "Artwork"}

\* States a backend's get_feature may report.
FeatureStates == {"Available", "Unavailable", "Unknown", "Unsupported"}

\* interface.FeatureInfo values a backend's get_feature may report: a state
\* and the keys of its options mapping.
LiveInfos ==
    {[state |-> "Available", options |-> {"volume"}],
     [state |-> "Unavailable", options |-> {}],
     [state |-> "Unsupported", options |-> {}]}

\* What a backend reports for a feature before it has learnt anything.
InitialInfo == [state |-> "Unknown", options |-> {}]

\* const.PowerState values a backend notifies.
PowerStates == {"On", "Off"}

\* ------------------------------------------------------------------------
\* Bounds of the model
\* ------------------------------------------------------------------------
MaxRegister == 2    \* Relayer.register calls
MaxAdd == 2         \* add_mapping + add_protocol calls
MaxCalls == 4       \* connect/close routines invoked by connect() and close(),
                    \* power notifications received

\* Generations that tell a protocol's instances and setup records apart.
Gens == {1, 2}

\* Python's None
None == [none |-> TRUE]

Listed == {DEFAULT_PRIORITIES[i] : i \in DOMAIN DEFAULT_PRIORITIES}

\* A backend instance: created by one protocol's setup; ops are the
\* operations of the interface its class implements.
Instances(iface) ==
    [proto : Listed, gen : Gens, ops : SUBSET OpsOf(iface)]

\* The protocols set up in the specifications that need only two backends.
TwoProtocols == {"MRP", "AirPlay"}

\* SetupData (facade.py:36): connect routine, close routine, feature set.
\* The two routines of one record are identified by (protocol, gen).
SetupDatas == [gen : Gens, features : SUBSET FeatureNames]

\* The setup records of backends that declare no features.
PlainSetupDatas == {sd \in SetupDatas : sd.features = {}}

VARIABLES
    interfaces,         \* per interface: Relayer._interfaces, protocol -> instance
    feature_map,        \* FacadeFeatures._feature_map
    protocol_handlers,  \* FacadeAppleTV._protocol_handlers, in insertion order
    config_services,    \* protocols for which self._config has a service
    connect_pc,         \* position of the connect() coroutine
    connect_invoked,    \* the handlers connect() has iterated over, in order
    connect_size,       \* dict size seen when connect() started iterating
    inflight,           \* the relayed call awaiting its backend, or None
    calls,              \* connect/close routines invoked so far, in order
    last,               \* the last completed operation and its outcome
    claimants,          \* history: per feature, the protocols whose add_mapping
                        \* claimed it, in the order of the calls
    add_log,            \* history: protocols passed to add_protocol, in call order
    live_state,         \* per feature: the FeatureInfo its holder reports when asked
    power_events,       \* history: power notifications received from backends
    listener_calls,     \* powerstate_update calls made on the external listener
    cli,                \* atvremote: the _handle_commands coroutine, its position,
                        \* the commands given, what it did so far and its outcome
    counts              \* how often each bounded operation has run

vars == <<interfaces, feature_map, protocol_handlers, config_services,
          connect_pc, connect_invoked, connect_size, inflight, calls, last,
          claimants, add_log, live_state, power_events, listener_calls, cli,
          counts>>

\* The variables of the facade object; the command line tool's coroutine
\* keeps its own state in cli.
facade_vars == <<interfaces, feature_map, protocol_handlers, config_services,
                 connect_pc, connect_invoked, connect_size, inflight, calls,
                 last, claimants, add_log, live_state, power_events,
                 listener_calls, counts>>

\* ------------------------------------------------------------------------
\* atvremote: _handle_commands (atvremote.py:862-884)

\* Longest command line explored
MaxCommands == 2

\* Command names given on the command line (args.command)
CliCommands == {"play", "turn_off"}

\* args.command: argparse nargs="+" (atvremote.py:555), one name at least
CommandLines ==
    UNION {[1..n -> CliCommands] : n \in 1..MaxCommands}

\* Codes _handle_device_command returns: 0 for success, 1 for an unknown or
\* failed command (atvremote.py:951, 979), or the value a non-API command
\* returned itself (atvremote.py:974).
RetCodes == {0, 1, 2}

\* How a coroutine ends: with a returned code or with an exception
Returned(code) == [kind |-> "return", code |-> code]

Raised == [kind |-> "raise"]

\* Before _handle_commands is called
CliStart ==
    [pc |-> "start", command |-> <<>>, next |-> 1, events |-> <<>>,
     pending |-> None, result |-> None]

\* A loop that looks at no return code: every command runs, 0 is returned
AfterCommandIgnoringCode(c, ret) ==
    IF c.next < Len(c.command)
    THEN [c EXCEPT !.pc = "loop", !.next = @ + 1]
    ELSE [c EXCEPT !.pc = "finally", !.pending = Returned(0)]

\* `if ret != 0: return ret`, else the next iteration of
\* `for cmd in args.command`, and `return 0` when the loop is exhausted
\* (atvremote.py:876-879, 884). A return inside the try block first runs the
\* finally block; the code is pending until then.
AfterCommand(c, ret) ==
    IF ret # 0
    THEN [c EXCEPT !.pc = "finally", !.pending = Returned(ret)]
    ELSE IF c.next < Len(c.command)
         THEN [c EXCEPT !.pc = "loop", !.next = @ + 1]
         ELSE [c EXCEPT !.pc = "finally", !.pending = Returned(0)]

\* _handle_commands up to the try block: `atv = await connect(...)` and the
\* listener assignments (atvremote.py:863-874). connect either returns a
\* device or raises; when it raises the try block is never entered.
HandleCommandsConnect(command, connected) ==
    /\ cli.pc = "start"
    /\ cli' = IF connected
              THEN [cli EXCEPT !.pc = "loop", !.command = command]
              ELSE [cli EXCEPT !.pc = "done", !.command = command,
                               !.result = Raised]
    /\ UNCHANGED facade_vars

\* `ret = await _handle_device_command(args, cmd, atv, storage, loop)`: the
\* call is made and the coroutine waits for it (atvremote.py:877-878)
HandleDeviceCommandStart ==
    /\ cli.pc = "loop"
    /\ cli' = [cli EXCEPT !.pc = "running",
                          !.events = Append(@, [ev |-> "start",
                                                index |-> cli.next,
                                                cmd |-> cli.command[cli.next]])]
    /\ UNCHANGED facade_vars

\* _handle_device_command returns ret
HandleDeviceCommandReturn(ret) ==
    /\ cli.pc = "running"
    /\ cli' = AfterCommand([cli EXCEPT !.events =
                                Append(@, [ev |-> "end", index |-> cli.next,
                                           ret |-> ret])],
                           ret)
    /\ UNCHANGED facade_vars

\* _handle_device_command raises: the exception leaves the loop and is
\* pending while the finally block runs
HandleDeviceCommandRaise ==
    /\ cli.pc = "running"
    /\ cli' = [cli EXCEPT !.pc = "finally", !.pending = Raised,
                          !.events = Append(@, [ev |-> "raise",
                                                index |-> cli.next])]
    /\ UNCHANGED facade_vars

\* finally: `remaining_tasks = atv.close()` (atvremote.py:880-882)
HandleCommandsClose ==
    /\ cli.pc = "finally"
    /\ cli' = [cli EXCEPT !.pc = "waiting",
                          !.events = Append(@, [ev |-> "close"])]
    /\ UNCHANGED facade_vars

\* `await asyncio.wait_for(asyncio.gather(*remaining_tasks), DEFAULT_TIMEOUT)`
\* (atvremote.py:883): when the tasks complete in time the pending return or
\* exception takes effect, otherwise the wait raises and replaces it.
HandleCommandsWait(completed) ==
    /\ cli.pc = "waiting"
    /\ cli' = [cli EXCEPT !.pc = "done",
                          !.result = IF completed THEN cli.pending ELSE Raised]
    /\ UNCHANGED facade_vars

\* ------------------------------------------------------------------------
\* Python dict with insertion order, as a sequence of [key, value]
\* ------------------------------------------------------------------------
Keys(d) == [i \in DOMAIN d |-> d[i].key]

HasKey(d, k) == \E i \in DOMAIN d : d[i].key = k

DictGet(d, k) == IF HasKey(d, k)
                 THEN d[CHOOSE i \in DOMAIN d : d[i].key = k].value
                 ELSE None

\* d[k] = v: an existing key keeps its position, a new key goes last.
DictSet(d, k, v) ==
    IF HasKey(d, k)
    THEN [i \in DOMAIN d |-> IF d[i].key = k THEN [key |-> k, value |-> v] ELSE d[i]]
    ELSE Append(d, [key |-> k, value |-> v])

\* ------------------------------------------------------------------------
\* Relayer (pyatv/support/relayer.py)
\* ------------------------------------------------------------------------

PrioritiesOfReversed(iface) ==
    [i \in DOMAIN DEFAULT_PRIORITIES |->
        DEFAULT_PRIORITIES[Len(DEFAULT_PRIORITIES) + 1 - i]]

\* The priority list each facade hands to its Relayer.
PrioritiesOf(iface) == DEFAULT_PRIORITIES

\* Relayer.get(protocol)
Get(iface, protocol) == interfaces[iface][protocol]

RegisterKeepFirst(iface, inst) ==
    /\ counts.register < MaxRegister
    /\ \E i \in DOMAIN PrioritiesOf(iface) : PrioritiesOf(iface)[i] = inst.proto
    /\ interfaces' = IF Get(iface, inst.proto) = None
                     THEN [interfaces EXCEPT ![iface][inst.proto] = inst]
                     ELSE interfaces
    /\ counts' = [counts EXCEPT !.register = @ + 1]
    /\ last' = [op |-> "register", proto |-> inst.proto, iface |-> iface,
                inst |-> inst, replaced |-> Get(iface, inst.proto)]
    /\ UNCHANGED <<feature_map, protocol_handlers, config_services, connect_pc,
                   connect_invoked, connect_size, inflight, calls, claimants, add_log,
                   live_state, power_events, listener_calls, cli>>

\* Relayer.register: binds an instance to an identifier of the relayer's
\* priority list, replacing the instance bound before.
Register(iface, inst) ==
    /\ counts.register < MaxRegister
    /\ \E i \in DOMAIN PrioritiesOf(iface) : PrioritiesOf(iface)[i] = inst.proto
    /\ interfaces' = [interfaces EXCEPT ![iface][inst.proto] = inst]
    /\ counts' = [counts EXCEPT !.register = @ + 1]
    /\ last' = [op |-> "register", proto |-> inst.proto, iface |-> iface,
                inst |-> inst, replaced |-> Get(iface, inst.proto)]
    /\ UNCHANGED <<feature_map, protocol_handlers, config_services, connect_pc,
                   connect_invoked, connect_size, inflight, calls, claimants, add_log,
                   live_state, power_events, listener_calls, cli>>

\* ------------------------------------------------------------------------
\* FacadeFeatures
\* ------------------------------------------------------------------------

\* list.index: position in DEFAULT_PRIORITIES, 0 where Python raises ValueError
Index(p) == IF p \in Listed
            THEN CHOOSE i \in DOMAIN DEFAULT_PRIORITIES : DEFAULT_PRIORITIES[i] = p
            ELSE 0

HasLowerPriority(first, second) ==
    [raised |-> Index(first) = 0 \/ Index(second) = 0,
     value |-> Index(first) > Index(second)]

HasHigherPriorityOrEqual(first, second) ==
    [raised |-> Index(first) = 0 \/ Index(second) = 0,
     value |-> Index(first) <= Index(second)]

HasAnyPriority(first, second) ==
    [raised |-> Index(first) = 0 \/ Index(second) = 0, value |-> TRUE]

\* FacadeFeatures._has_higher_priority: the comparison, or a raised
\* ValueError when list.index does not find one of the two.
HasHigherPriority(first, second) ==
    [raised |-> Index(first) = 0 \/ Index(second) = 0,
     value |-> Index(first) < Index(second)]

\* The body of the loop of add_mapping over the features in iteration order
\* `order`; stops at the first feature for which the comparison raises.
RECURSIVE MappingLoop(_, _, _, _)
MappingLoop(fm, protocol, instance, order) ==
    IF order = <<>> THEN [map |-> fm, raised |-> FALSE]
    ELSE LET feature == Head(order)
             missing == feature \notin DOMAIN fm
             higher == IF missing THEN [raised |-> FALSE, value |-> TRUE]
                       ELSE HasHigherPriority(protocol, fm[feature].proto)
         IN IF higher.raised THEN [map |-> fm, raised |-> TRUE]
            ELSE MappingLoop(
                     IF missing \/ higher.value
                     THEN [f \in DOMAIN fm \cup {feature} |->
                              IF f = feature
                              THEN [proto |-> protocol, inst |-> instance]
                              ELSE fm[f]]
                     ELSE fm,
                     protocol, instance, Tail(order))

\* The orders in which a Python set of features may be iterated.
Orders(features) ==
    {s \in [1..Cardinality(features) -> features] :
        \A i, j \in DOMAIN s : i # j => s[i] # s[j]}

AddMappingUnguarded(fm, protocol, features, order) ==
    MappingLoop(fm, protocol, Get("Features", protocol), order)

\* FacadeFeatures.add_mapping: the new feature map and whether it raised.
AddMapping(fm, protocol, features, order) ==
    LET instance == Get("Features", protocol)
    IN IF instance # None
       THEN MappingLoop(fm, protocol, instance, order)
       ELSE [map |-> fm, raised |-> FALSE]

\* History: the features `protocol` has claimed with an add_mapping that
\* found its instance and returned.
Claim(r, protocol, features) ==
    IF Get("Features", protocol) # None /\ ~r.raised
    THEN [f \in FeatureNames |->
             IF f \in features THEN Append(claimants[f], protocol) ELSE claimants[f]]
    ELSE claimants

Overwritten(before, after) ==
    {f \in DOMAIN before : after[f] # before[f]}

\* A call of features.add_mapping(protocol, features)
DoAddMapping(protocol, features) ==
    /\ counts.add < MaxAdd
    /\ \E order \in Orders(features) :
          LET r == AddMapping(feature_map, protocol, features, order)
          IN /\ feature_map' = r.map
             /\ claimants' = Claim(r, protocol, features)
             /\ last' = [op |-> "add_mapping", proto |-> protocol,
                         features |-> features, raised |-> r.raised,
                         overwrote |-> Overwritten(feature_map, r.map)]
    /\ counts' = [counts EXCEPT !.add = @ + 1]
    /\ UNCHANGED <<interfaces, protocol_handlers, config_services, connect_pc,
                   connect_invoked, connect_size, inflight, calls, add_log,
                   live_state, power_events, listener_calls, cli>>

\* interface.FeatureInfo(state): the options default to an empty mapping.
FeatureInfo(state) == [state |-> state, options |-> {}]

\* The answer of the get_feature call before this one, when that was for the
\* same feature and only the backend's state has changed since.
PreviousAnswer(feature_name) ==
    IF last.op = "get_feature" /\ last.feature = feature_name THEN last.answer
    ELSE IF last.op = "feature_change" /\ last.feature = feature_name
    THEN last.previous
    ELSE None

GetFeatureCached(feature_name, live) ==
    IF feature_name \in DOMAIN feature_map
    THEN IF PreviousAnswer(feature_name) # None
            /\ PreviousAnswer(feature_name).by = feature_map[feature_name].inst
         THEN PreviousAnswer(feature_name)
         ELSE [by |-> feature_map[feature_name].inst,
               state |-> live.state, options |-> live.options]
    ELSE [by |-> None, state |-> "Unsupported", options |-> {}]

GetFeatureDefaultUnknown(feature_name, live) ==
    IF feature_name \in DOMAIN feature_map
    THEN [by |-> feature_map[feature_name].inst,
          state |-> live.state, options |-> live.options]
    ELSE [by |-> None, state |-> "Unknown", options |-> {}]

\* FacadeFeatures.get_feature: who answers and with which FeatureInfo. The
\* holder's answer is what its get_feature returns at the time of the call,
\* `live`; without a holder the facade answers FeatureInfo(Unsupported).
GetFeature(feature_name, live) ==
    IF feature_name \in DOMAIN feature_map
    THEN [by |-> feature_map[feature_name].inst,
          state |-> live.state, options |-> live.options]
    ELSE [by |-> None, state |-> FeatureInfo("Unsupported").state,
          options |-> FeatureInfo("Unsupported").options]

\* A call of features.get_feature(feature_name)
DoGetFeature(feature_name) ==
    /\ last' = [op |-> "get_feature", feature |-> feature_name,
                raised |-> FALSE,
                answer |-> GetFeature(feature_name, live_state[feature_name]),
                previous |-> PreviousAnswer(feature_name)]
    /\ UNCHANGED <<interfaces, feature_map, protocol_handlers, config_services,
                   connect_pc, connect_invoked, connect_size, inflight, calls,
                   claimants, add_log, counts,
                   live_state, power_events, listener_calls, cli>>

\* The backend holding `feature_name` comes to report `info` for it.
FeatureChange(feature_name, info) ==
    /\ live_state[feature_name] # info
    /\ live_state' = [live_state EXCEPT ![feature_name] = info]
    /\ last' = [op |-> "feature_change", feature |-> feature_name,
                previous |-> PreviousAnswer(feature_name)]
    /\ UNCHANGED <<interfaces, feature_map, protocol_handlers, config_services,
                   connect_pc, connect_invoked, connect_size, inflight, calls,
                   claimants, add_log, counts, power_events, listener_calls, cli>>

\* ------------------------------------------------------------------------
\* FacadeAppleTV
\* ------------------------------------------------------------------------

\* FacadeAppleTV.add_protocol
AddProtocol(protocol, setup_data) ==
    /\ counts.add < MaxAdd
    /\ protocol_handlers' = DictSet(protocol_handlers, protocol, setup_data)
    /\ \E order \in Orders(setup_data.features) :
          LET r == AddMapping(feature_map, protocol, setup_data.features, order)
          IN /\ feature_map' = r.map
             /\ claimants' = Claim(r, protocol, setup_data.features)
             /\ last' = [op |-> "add_protocol", proto |-> protocol,
                         setup |-> setup_data, raised |-> r.raised,
                         overwrote |-> Overwritten(feature_map, r.map),
                         readded |-> HasKey(protocol_handlers, protocol),
                         held |-> {f \in DOMAIN feature_map :
                                      feature_map[f].proto = protocol}]
    /\ add_log' = Append(add_log, protocol)
    /\ counts' = [counts EXCEPT !.add = @ + 1]
    /\ UNCHANGED <<interfaces, config_services, connect_pc, connect_invoked,
                   connect_size, inflight, calls,
                   live_state, power_events, listener_calls, cli>>

\* ------------------------------------------------------------------------
\* Relayed calls (FacadeStream, FacadeApps)
\* ------------------------------------------------------------------------

Min(S) == CHOOSE x \in S : \A y \in S : x <= y

\* The positions of the priority list whose protocol has an instance
\* implementing `target`.
Declaring(iface, target) ==
    {i \in DOMAIN PrioritiesOf(iface) :
        LET inst == Get(iface, PrioritiesOf(iface)[i])
        IN inst # None /\ target \in inst.ops}

ResolveIgnoringOps(iface, target) ==
    LET bound == {i \in DOMAIN PrioritiesOf(iface) :
                     Get(iface, PrioritiesOf(iface)[i]) # None}
    IN IF bound = {} THEN None
       ELSE Get(iface, PrioritiesOf(iface)[Min(bound)])

\* Relayer.relay(target): the instance of the first protocol of the priority
\* list that implements `target`, or None (NotSupportedError).
Resolve(iface, target) ==
    IF Declaring(iface, target) = {} THEN None
    ELSE Get(iface, PrioritiesOf(iface)[Min(Declaring(iface, target))])

MethodUnsupportedSwallowed(target) == "ok"

\* A method-style facade operation whose relay() finds no instance: the
\* facade has no handler around relay(), the NotSupportedError is the
\* outcome of the call.
MethodUnsupported(target) == "NotSupportedError"

\* The relayed call that returned or was refused just before, if any.
CallBefore == IF "backend" \in DOMAIN last THEN last.op ELSE "none"

RelayStartDeferred(iface, target) ==
    /\ inflight = None
    /\ inflight' = [iface |-> iface, target |-> target, invoked |-> <<>>,
                    args |-> None]
    /\ last' = [op |-> "relay", after |-> CallBefore]
    /\ UNCHANGED <<interfaces, feature_map, protocol_handlers, config_services,
                   connect_pc, connect_invoked, connect_size, calls, claimants,
                   add_log, counts,
                   live_state, power_events, listener_calls, cli>>

\* The facade method up to its await: resolve, then call the instance.
RelayStart(iface, target) ==
    /\ inflight = None
    /\ LET inst == Resolve(iface, target)
       IN IF inst = None
          THEN /\ last' = [op |-> target, iface |-> iface,
                           result |-> MethodUnsupported(target), invoked |-> <<>>,
                           backend |-> "none"]
               /\ UNCHANGED inflight
          ELSE /\ inflight' = [iface |-> iface, target |-> target,
                               invoked |-> <<inst>>, args |-> None]
               /\ last' = [op |-> "relay", after |-> CallBefore]
    /\ UNCHANGED <<interfaces, feature_map, protocol_handlers, config_services,
                   connect_pc, connect_invoked, connect_size, calls, claimants,
                   add_log, counts,
                   live_state, power_events, listener_calls, cli>>

\* FacadeRemoteControl.up
Up == RelayStart("RemoteControl", "up")

\* FacadeRemoteControl.play
Play == RelayStart("RemoteControl", "play")

\* FacadeStream.play_url
PlayUrl == RelayStart("Stream", "play_url")

\* FacadeApps.app_list
AppList == RelayStart("Apps", "app_list")

\* FacadeApps.launch_app
LaunchApp == RelayStart("Apps", "launch_app")

RelayEndWithFallback(call, outcome) ==
    LET rest == {i \in Declaring(call.iface, call.target) :
                    Get(call.iface, PrioritiesOf(call.iface)[i]) \notin
                        {call.invoked[j] : j \in DOMAIN call.invoked}}
    IN IF outcome = "error" /\ rest # {}
       THEN [invoked |-> Append(call.invoked,
                                Get(call.iface, PrioritiesOf(call.iface)[Min(rest)])),
             result |-> "ok"]
       ELSE [invoked |-> call.invoked, result |-> outcome]

\* The facade method after its await: the backend's result or exception is
\* the method's result or exception.
RelayEnd(call, outcome) ==
    [invoked |-> call.invoked, result |-> outcome]

\* The backend call of the relayed call in flight returns or raises.
RelayReturn(outcome) ==
    /\ inflight # None
    /\ LET r == RelayEnd(inflight, outcome)
       IN /\ last' = [op |-> inflight.target, iface |-> inflight.iface,
                      result |-> r.result, invoked |-> r.invoked,
                      backend |-> outcome, args |-> inflight.args]
    /\ inflight' = None
    /\ UNCHANGED <<interfaces, feature_map, protocol_handlers, config_services,
                   connect_pc, connect_invoked, connect_size, calls, claimants,
                   add_log, counts,
                   live_state, power_events, listener_calls, cli>>

\* ------------------------------------------------------------------------
\* Property-style accessors (FacadeMetadata)
\* ------------------------------------------------------------------------

\* Values of a backend's device_id property (Optional[str]).
DeviceIds == {None, [id |-> "id"]}

\* `return self.relay(target)`: the attribute of the resolved instance; with
\* no instance resolved the NotSupportedError of relay() leaves the property.
PropertyRead(iface, target, value) ==
    LET inst == Resolve(iface, target)
    IN IF inst = None
       THEN [result |-> "NotSupportedError", by |-> None, value |-> None]
       ELSE [result |-> "ok", by |-> inst, value |-> value]

\* The default of artwork's width parameter (facade.py:172).
DefaultWidth == 512

\* An argument the caller leaves out.
Omitted == [omitted |-> TRUE]

\* What a caller may pass for width or height: nothing, None, a size.
ArtworkSizes == {Omitted, None, [px |-> 100]}

\* Parameter binding of artwork(self, width=512, height=None).
ArtworkArgs(width, height) ==
    [width |-> IF width = Omitted THEN [px |-> DefaultWidth] ELSE width,
     height |-> IF height = Omitted THEN None ELSE height]

\* FacadeMetadata.artwork up to its await: resolve, then call the instance
\* with width=width, height=height.
Artwork(width, height) ==
    /\ inflight = None
    /\ LET inst == Resolve("Metadata", "artwork")
       IN IF inst = None
          THEN /\ last' = [op |-> "artwork", iface |-> "Metadata",
                           result |-> MethodUnsupported("artwork"),
                           invoked |-> <<>>, backend |-> "none", args |-> None]
               /\ UNCHANGED inflight
          ELSE /\ inflight' = [iface |-> "Metadata", target |-> "artwork",
                               invoked |-> <<inst>>,
                               args |-> ArtworkArgs(width, height)]
               /\ last' = [op |-> "relay",
                           given |-> [width |-> width, height |-> height]]
    /\ UNCHANGED <<interfaces, feature_map, protocol_handlers, config_services,
                   connect_pc, connect_invoked, connect_size, calls, claimants,
                   add_log, counts, live_state, power_events, listener_calls, cli>>

\* A read of FacadeMetadata.device_id
ReadDeviceId ==
    /\ \E value \in DeviceIds :
          LET r == PropertyRead("Metadata", "device_id", value)
          IN last' = [op |-> "device_id", iface |-> "Metadata",
                      result |-> r.result, by |-> r.by, value |-> r.value]
    /\ UNCHANGED <<interfaces, feature_map, protocol_handlers, config_services,
                   connect_pc, connect_invoked, connect_size, inflight, calls,
                   claimants, add_log, counts,
                   live_state, power_events, listener_calls, cli>>

\* ------------------------------------------------------------------------
\* FacadePower
\* ------------------------------------------------------------------------

AwaitNewStateDefault(await_new_state) == FALSE

\* The keyword argument of the relayed call: await_new_state=await_new_state
AwaitNewState(await_new_state) == await_new_state

\* turn_on / turn_off up to the await: resolve, then call the instance with
\* the caller's await_new_state.
PowerStart(target, await_new_state) ==
    /\ inflight = None
    /\ LET inst == Resolve("Power", target)
       IN IF inst = None
          THEN /\ last' = [op |-> target, iface |-> "Power",
                           result |-> MethodUnsupported(target), invoked |-> <<>>,
                           backend |-> "none", args |-> None]
               /\ UNCHANGED inflight
          ELSE /\ inflight' = [iface |-> "Power", target |-> target,
                               invoked |-> <<inst>>,
                               args |-> [await_new_state |->
                                            AwaitNewState(await_new_state)]]
               /\ last' = [op |-> "relay", given |-> await_new_state]
    /\ UNCHANGED <<interfaces, feature_map, protocol_handlers, config_services,
                   connect_pc, connect_invoked, connect_size, calls, claimants,
                   add_log, counts, live_state, power_events, listener_calls, cli>>

\* FacadePower.turn_on
TurnOn(await_new_state) == PowerStart("turn_on", await_new_state)

\* FacadePower.turn_off
TurnOff(await_new_state) == PowerStart("turn_off", await_new_state)

PowerstateForwardDeduplicated(log, old_state, new_state) ==
    IF log # <<>> /\ log[Len(log)] = [old_state |-> old_state, new_state |-> new_state]
    THEN log
    ELSE Append(log, [old_state |-> old_state, new_state |-> new_state])

\* self.listener.powerstate_update(old_state, new_state): one call on the
\* listener with the two arguments as received.
PowerstateForward(log, old_state, new_state) ==
    Append(log, [old_state |-> old_state, new_state |-> new_state])

\* FacadePower.powerstate_update, called by a backend
PowerstateUpdate(old_state, new_state) ==
    /\ Len(power_events) < MaxCalls
    /\ power_events' = Append(power_events,
                              [old_state |-> old_state, new_state |-> new_state])
    /\ listener_calls' = PowerstateForward(listener_calls, old_state, new_state)
    /\ last' = [op |-> "powerstate_update"]
    /\ UNCHANGED <<interfaces, feature_map, protocol_handlers, config_services,
                   connect_pc, connect_invoked, connect_size, inflight, calls,
                   claimants, add_log, counts, live_state, cli>>

\* ------------------------------------------------------------------------
\* FacadeAppleTV.push_updater
\* ------------------------------------------------------------------------

\* Relayer.main_instance: the instance of the first protocol of the priority
\* list that has one, or None.
MainInstance(iface) ==
    LET bound == {i \in DOMAIN PrioritiesOf(iface) :
                     Get(iface, PrioritiesOf(iface)[i]) # None}
    IN IF bound = {} THEN None
       ELSE Get(iface, PrioritiesOf(iface)[Min(bound)])

PushUpdaterRelayed == Resolve("PushUpdater", "start")

\* FacadeAppleTV.push_updater
PushUpdater == MainInstance("PushUpdater")

\* A read of the push_updater property
ReadPushUpdater ==
    /\ last' = [op |-> "push_updater", value |-> PushUpdater]
    /\ UNCHANGED <<interfaces, feature_map, protocol_handlers, config_services,
                   connect_pc, connect_invoked, connect_size, inflight, calls,
                   claimants, add_log, counts,
                   live_state, power_events, listener_calls, cli>>

\* ------------------------------------------------------------------------
\* FacadeAppleTV: connect, close, service
\* ------------------------------------------------------------------------

\* The order in which connect() and close() go over the handlers.
HandlerOrderByPriority(handlers) ==
    LET pos(k) == IF k \in Listed THEN Index(k) ELSE Len(DEFAULT_PRIORITIES) + 1
        rank(j) == Cardinality({m \in DOMAIN handlers :
                       \/ pos(handlers[m].key) < pos(handlers[j].key)
                       \/ pos(handlers[m].key) = pos(handlers[j].key) /\ m <= j})
    IN [n \in DOMAIN handlers |->
           handlers[CHOOSE j \in DOMAIN handlers : rank(j) = n]]

\* self._protocol_handlers.values(): insertion order
HandlerOrder(handlers) == handlers

RoutineOf(kind, entry) ==
    [kind |-> kind, proto |-> entry.key, gen |-> entry.value.gen]

\* One turn of the for statement of connect(): the dict iterator raises
\* RuntimeError when the dict changed size, ends after the last handler,
\* and otherwise yields the next handler, whose connect routine is called.
ConnectIterate ==
    IF Len(protocol_handlers) # connect_size
    THEN /\ connect_pc' = "idle"
         /\ last' = [op |-> "connect", result |-> "RuntimeError",
                     invoked |-> connect_invoked]
         /\ UNCHANGED <<connect_invoked, calls>>
    ELSE IF Len(connect_invoked) = Len(protocol_handlers)
    THEN /\ connect_pc' = "idle"
         /\ last' = [op |-> "connect", result |-> "ok",
                     invoked |-> connect_invoked]
         /\ UNCHANGED <<connect_invoked, calls>>
    ELSE LET entry == HandlerOrder(protocol_handlers)[Len(connect_invoked) + 1]
         IN /\ connect_pc' = "await"
            /\ connect_invoked' = Append(connect_invoked, RoutineOf("connect", entry))
            /\ calls' = Append(calls, RoutineOf("connect", entry))
            /\ last' = [op |-> "connecting"]

ConnectStartAllAtOnce ==
    /\ Len(calls) < MaxCalls
    /\ connect_pc = "idle"
    /\ connect_size' = Len(protocol_handlers)
    /\ IF protocol_handlers = <<>>
       THEN /\ connect_pc' = "idle"
            /\ connect_invoked' = <<>>
            /\ last' = [op |-> "connect", result |-> "ok", invoked |-> <<>>]
            /\ UNCHANGED calls
       ELSE LET all == [i \in DOMAIN protocol_handlers |->
                          RoutineOf("connect", HandlerOrder(protocol_handlers)[i])]
            IN /\ connect_pc' = "await"
               /\ connect_invoked' = all
               /\ calls' = calls \o all
               /\ last' = [op |-> "connecting"]
    /\ UNCHANGED <<interfaces, feature_map, protocol_handlers, config_services,
                   inflight, claimants, add_log, counts,
                   live_state, power_events, listener_calls, cli>>

\* connect() is called and runs up to its first await.
ConnectStart ==
    /\ Len(calls) < MaxCalls
    /\ connect_pc = "idle"
    /\ connect_size' = Len(protocol_handlers)
    /\ IF protocol_handlers = <<>>
       THEN /\ connect_pc' = "idle"
            /\ connect_invoked' = <<>>
            /\ last' = [op |-> "connect", result |-> "ok", invoked |-> <<>>]
            /\ UNCHANGED calls
       ELSE LET entry == HandlerOrder(protocol_handlers)[1]
            IN /\ connect_pc' = "await"
               /\ connect_invoked' = <<RoutineOf("connect", entry)>>
               /\ calls' = Append(calls, RoutineOf("connect", entry))
               /\ last' = [op |-> "connecting"]
    /\ UNCHANGED <<interfaces, feature_map, protocol_handlers, config_services,
                   inflight, claimants, add_log, counts,
                   live_state, power_events, listener_calls, cli>>

ConnectFailedWithRollback ==
    /\ connect_pc' = "idle"
    /\ last' = [op |-> "connect", result |-> "ConnectionError",
                invoked |-> connect_invoked]
    /\ calls' = calls \o
          [i \in 1..(Len(connect_invoked) - 1) |->
              [connect_invoked[i] EXCEPT !.kind = "close"]]
    /\ UNCHANGED connect_invoked

\* The awaited connect routine raised: connect() has no handler for it.
ConnectFailed ==
    /\ connect_pc' = "idle"
    /\ last' = [op |-> "connect", result |-> "ConnectionError",
                invoked |-> connect_invoked]
    /\ UNCHANGED <<connect_invoked, calls>>

\* The awaited connect routine returns or raises and connect() goes on.
ConnectResume(outcome) ==
    /\ connect_pc = "await"
    /\ Len(calls) < MaxCalls
    /\ IF outcome = "error" THEN ConnectFailed ELSE ConnectIterate
    /\ UNCHANGED <<interfaces, feature_map, protocol_handlers, config_services,
                   connect_size, inflight, claimants, add_log, counts,
                   live_state, power_events, listener_calls, cli>>

\* The loop of close(): the close routines run in order up to and including
\* the first that raises; `failing` are the positions whose routine raises.
CloseLoop(handlers, failing) ==
    LET bad == failing \cap DOMAIN handlers
        n == IF bad = {} THEN Len(handlers) ELSE Min(bad)
    IN [invoked |-> [i \in 1..n |-> RoutineOf("close", HandlerOrder(handlers)[i])],
        raised |-> bad # {}]

CloseCallsSessionLast(r) ==
    r.invoked \o (IF r.raised THEN <<>> ELSE <<[kind |-> "session_close"]>>)

\* What close() invokes: asyncio.ensure_future(self._session_manager.close())
\* first, then what the loop over the close routines invokes.
CloseCalls(r) == <<[kind |-> "session_close"]>> \o r.invoked

CloseCancelling(failing) ==
    /\ LET r == CloseLoop(protocol_handlers, failing)
       IN /\ Len(calls) + Len(CloseCalls(r)) <= MaxCalls
          /\ calls' = calls \o CloseCalls(r)
          /\ last' = [op |-> "close", raised |-> r.raised, invoked |-> r.invoked,
                      registered |-> Len(protocol_handlers)]
    /\ inflight' = None
    /\ UNCHANGED <<interfaces, feature_map, protocol_handlers, config_services,
                   connect_pc, connect_invoked, connect_size, claimants,
                   add_log, counts,
                   live_state, power_events, listener_calls, cli>>

\* FacadeAppleTV.close
Close(failing) ==
    /\ LET r == CloseLoop(protocol_handlers, failing)
       IN /\ Len(calls) + Len(CloseCalls(r)) <= MaxCalls
          /\ calls' = calls \o CloseCalls(r)
          /\ last' = [op |-> "close", raised |-> r.raised, invoked |-> r.invoked,
                      registered |-> Len(protocol_handlers)]
    /\ UNCHANGED <<interfaces, feature_map, protocol_handlers, config_services,
                   connect_pc, connect_invoked, connect_size, inflight, claimants,
                   add_log, counts,
                   live_state, power_events, listener_calls, cli>>

\* FacadeAppleTV.service: the first protocol of DEFAULT_PRIORITIES the
\* config has a service for, or RuntimeError("no service (bug)").
Service ==
    LET avail == {i \in DOMAIN DEFAULT_PRIORITIES :
                     DEFAULT_PRIORITIES[i] \in config_services}
    IN IF avail = {} THEN [raised |-> TRUE, service |-> None]
       ELSE [raised |-> FALSE, service |-> [proto |-> DEFAULT_PRIORITIES[Min(avail)]]]

\* A read of the service property
ReadService ==
    /\ last' = [op |-> "service", raised |-> Service.raised,
                service |-> Service.service]
    /\ UNCHANGED <<interfaces, feature_map, protocol_handlers, config_services,
                   connect_pc, connect_invoked, connect_size, inflight, calls,
                   claimants, add_log, counts,
                   live_state, power_events, listener_calls, cli>>

\* ------------------------------------------------------------------------
\* Specifications
\* ------------------------------------------------------------------------

\* After construction (facade.py:308-325, 210-213): empty relayers, empty
\* feature map, no protocol handlers.
InitFacade ==
    /\ interfaces = [i \in Interfaces |-> [p \in Protocols |-> None]]
    /\ feature_map = <<>>
    /\ protocol_handlers = <<>>
    /\ connect_pc = "idle"
    /\ connect_invoked = <<>>
    /\ connect_size = 0
    /\ inflight = None
    /\ calls = <<>>
    /\ last = [op |-> "init"]
    /\ claimants = [f \in FeatureNames |-> <<>>]
    /\ add_log = <<>>
    /\ live_state = [f \in FeatureNames |-> InitialInfo]
    /\ power_events = <<>>
    /\ listener_calls = <<>>
    /\ cli = CliStart
    /\ counts = [register |-> 0, add |-> 0]

\* The facade is constructed with a config holding services of any protocols.
Init == InitFacade /\ config_services \in SUBSET Protocols

InitNoConfig == InitFacade /\ config_services = {}

\* The feature aggregator on its own: Features instances are registered,
\* features are mapped and queried.
NextFeatures ==
    \/ \E inst \in Instances("Features") : Register("Features", inst)
    \/ \E p \in Protocols, fs \in SUBSET FeatureNames : DoAddMapping(p, fs)
    \/ \E f \in FeatureNames : DoGetFeature(f)

SpecFeatures == InitNoConfig /\ [][NextFeatures]_vars

\* The feature aggregator with backends whose feature states change: one
\* instance per listed protocol, and PlayUrl as the feature that changes.
NextLive ==
    \/ \E inst \in Instances("Features") :
          inst.gen = 1 /\ Register("Features", inst)
    \/ \E p \in Listed, fs \in SUBSET FeatureNames : DoAddMapping(p, fs)
    \/ \E info \in LiveInfos : FeatureChange("PlayUrl", info)
    \/ \E f \in FeatureNames : DoGetFeature(f)

SpecLive == InitNoConfig /\ [][NextLive]_vars

\* Protocol setup: Features instances are registered and protocols added.
NextSetup ==
    \/ \E inst \in Instances("Features") : Register("Features", inst)
    \/ \E p \in Protocols, sd \in SetupDatas : AddProtocol(p, sd)

SpecSetup == InitNoConfig /\ [][NextSetup]_vars

\* Relayed calls of the Stream facade.
NextRelay ==
    \/ \E inst \in Instances("Stream") : Register("Stream", inst)
    \/ PlayUrl
    \/ \E outcome \in {"ok", "error"} : RelayReturn(outcome)

SpecRelay == InitNoConfig /\ [][NextRelay]_vars

\* Relayed calls of the Apps facade.
NextApps ==
    \/ \E inst \in Instances("Apps") : Register("Apps", inst)
    \/ AppList
    \/ LaunchApp
    \/ \E outcome \in {"ok", "error"} : RelayReturn(outcome)

SpecApps == InitNoConfig /\ [][NextApps]_vars

\* Lifecycle of the facade: protocols are added, connected and closed.
NextLifecycle ==
    \/ \E p \in Protocols, sd \in PlainSetupDatas : AddProtocol(p, sd)
    \/ ConnectStart
    \/ \E outcome \in {"ok", "error"} : ConnectResume(outcome)
    \/ \E failing \in SUBSET DOMAIN protocol_handlers : Close(failing)

SpecLifecycle == InitNoConfig /\ [][NextLifecycle]_vars

\* Shutdown during a call: the instances of two protocols serve play while
\* the protocols are added and the facade is closed.
NextShutdown ==
    \/ \E inst \in Instances("RemoteControl") :
          /\ inst.gen = 1
          /\ inst.proto \in TwoProtocols
          /\ Register("RemoteControl", inst)
    \/ \E p \in TwoProtocols, sd \in PlainSetupDatas :
          sd.gen = 1 /\ AddProtocol(p, sd)
    \/ Play
    \/ \E outcome \in {"ok", "error"} : RelayReturn(outcome)
    \/ \E failing \in SUBSET DOMAIN protocol_handlers : Close(failing)

SpecShutdown == InitNoConfig /\ [][NextShutdown]_vars

\* Feature claims: one Features instance per protocol may be registered
\* before or after its protocol is added or mapped.
NextMapping ==
    \/ \E inst \in Instances("Features") :
          inst.gen = 1 /\ Register("Features", inst)
    \/ \E p \in TwoProtocols, sd \in SetupDatas : sd.gen = 1 /\ AddProtocol(p, sd)
    \/ \E p \in Protocols, fs \in SUBSET FeatureNames : DoAddMapping(p, fs)

SpecMapping == InitNoConfig /\ [][NextMapping]_vars

\* The feature map over the life of the facade, followed for one feature:
\* the Features instances of two protocols are registered, the protocols are
\* added and mapped with PlayUrl, the facade is connected and
\* closed, and PlayUrl is queried.
NextMonotone ==
    \/ \E inst \in Instances("Features") :
          /\ inst.gen = 1
          /\ inst.proto \in TwoProtocols
          /\ Register("Features", inst)
    \/ \E p \in TwoProtocols, sd \in SetupDatas :
          /\ sd.gen = 1
          /\ sd.features = {"PlayUrl"}
          /\ AddProtocol(p, sd)
    \/ \E p \in TwoProtocols : DoAddMapping(p, {"PlayUrl"})
    \/ ConnectStart
    \/ \E outcome \in {"ok", "error"} : ConnectResume(outcome)
    \/ \E failing \in SUBSET DOMAIN protocol_handlers : Close(failing)
    \/ DoGetFeature("PlayUrl")

SpecMonotone == InitNoConfig /\ [][NextMonotone]_vars

\* Identity: protocols the config has a service for are added, and the
\* service property is read.
NextIdentity ==
    \/ \E p \in config_services, sd \in PlainSetupDatas : AddProtocol(p, sd)
    \/ ReadService

SpecIdentity == Init /\ [][NextIdentity]_vars

\* Relayed calls of the RemoteControl facade.
NextRemote ==
    \/ \E inst \in Instances("RemoteControl") : Register("RemoteControl", inst)
    \/ Up
    \/ Play
    \/ \E outcome \in {"ok", "error"} : RelayReturn(outcome)

SpecRemote == InitNoConfig /\ [][NextRemote]_vars

\* Push updates: backends are registered and push_updater is read.
NextPush ==
    \/ \E inst \in Instances("PushUpdater") : Register("PushUpdater", inst)
    \/ ReadPushUpdater

SpecPush == InitNoConfig /\ [][NextPush]_vars

\* Power control: backends are registered, turn_on and turn_off are called.
NextPower ==
    \/ \E inst \in Instances("Power") : Register("Power", inst)
    \/ \E await_new_state \in BOOLEAN : TurnOn(await_new_state)
    \/ \E await_new_state \in BOOLEAN : TurnOff(await_new_state)
    \/ \E outcome \in {"ok", "error"} : RelayReturn(outcome)

SpecPower == InitNoConfig /\ [][NextPower]_vars

\* Power notifications: backends report power state changes.
NextPowerBridge ==
    \E old_state \in PowerStates, new_state \in PowerStates :
       PowerstateUpdate(old_state, new_state)

SpecPowerBridge == InitNoConfig /\ [][NextPowerBridge]_vars

\* Metadata: backends are registered, device_id is read, artwork is called.
NextMetadata ==
    \/ \E inst \in Instances("Metadata") : Register("Metadata", inst)
    \/ ReadDeviceId
    \/ \E width \in ArtworkSizes, height \in ArtworkSizes : Artwork(width, height)
    \/ \E outcome \in {"ok", "error"} : RelayReturn(outcome)

SpecMetadata == InitNoConfig /\ [][NextMetadata]_vars

\* The command line tool running one command line against a device
NextCli ==
    \/ \E command \in CommandLines, connected \in BOOLEAN :
          HandleCommandsConnect(command, connected)
    \/ HandleDeviceCommandStart
    \/ \E ret \in RetCodes : HandleDeviceCommandReturn(ret)
    \/ HandleDeviceCommandRaise
    \/ HandleCommandsClose
    \/ \E completed \in BOOLEAN : HandleCommandsWait(completed)

SpecCli == InitNoConfig /\ [][NextCli]_vars

Next ==
    \/ NextFeatures
    \/ NextSetup
    \/ NextRelay
    \/ NextLifecycle
    \/ NextIdentity
    \/ NextMetadata
    \/ NextRemote
    \/ NextPush
    \/ NextPowerBridge
    \/ NextLive
    \/ NextPower
    \/ NextApps
    \/ NextShutdown
    \/ NextMapping
    \/ NextMonotone
    \/ NextCli

Spec == Init /\ [][Next]_vars

\* ------------------------------------------------------------------------
\* Properties
\* ------------------------------------------------------------------------

RelayTargets == {"play_url", "app_list", "launch_app", "up", "play",
                 "turn_on", "turn_off"}

\* The protocols of a sequence of protocols, each at its first occurrence.
RECURSIVE FirstOccurrences(_)
FirstOccurrences(log) ==
    IF log = <<>> THEN <<>>
    ELSE LET init == FirstOccurrences(SubSeq(log, 1, Len(log) - 1))
             p == log[Len(log)]
         IN IF \E i \in DOMAIN init : init[i] = p THEN init ELSE Append(init, p)

\* The claimant of highest priority among the protocols of a sequence.
BestOf(ps) ==
    ps[CHOOSE i \in DOMAIN ps : \A j \in DOMAIN ps : Index(ps[i]) <= Index(ps[j])]

\* C1: when backends of different priority have both mapped a feature,
\* get_feature for it is answered by an instance of the backend of highest
\* priority, in whichever order the add_mapping calls were made.
C1_HighestPriorityAnswers ==
    last.op = "get_feature" /\ claimants[last.feature] # <<>> =>
        /\ last.answer.by # None
        /\ last.answer.by.proto = BestOf(claimants[last.feature])

\* C1 witness: get_feature was asked for a feature that the higher-priority
\* backend mapped first and the lower-priority backend mapped afterwards.
C1_Witness ==
    /\ last.op = "get_feature"
    /\ Len(claimants[last.feature]) = 2
    /\ Index(claimants[last.feature][1]) < Index(claimants[last.feature][2])
    /\ last.answer.by.proto = claimants[last.feature][1]

\* C2: a relayed call is served by the instance registered for the first
\* protocol of DEFAULT_PRIORITIES whose instance implements the operation:
\* the instance called implements it, is the one registered for its protocol,
\* and no protocol before it in the list has an instance implementing it; the
\* call is refused only when no registered instance implements it.
C2_FirstDeclaringServes ==
    /\ last.op = "relay" =>
          LET inst == inflight.invoked[1]
          IN /\ Len(inflight.invoked) = 1
             /\ interfaces[inflight.iface][inst.proto] = inst
             /\ inflight.target \in inst.ops
             /\ \A p \in Listed :
                   Index(p) < Index(inst.proto) =>
                      \/ interfaces[inflight.iface][p] = None
                      \/ inflight.target \notin interfaces[inflight.iface][p].ops
    /\ last.op \in RelayTargets /\ last.result = "NotSupportedError" =>
          \A p \in Protocols :
             \/ interfaces[last.iface][p] = None
             \/ last.op \notin interfaces[last.iface][p].ops

\* C2 witness: play_url is in flight at a backend while a backend earlier in
\* the priority list is registered for Stream without implementing play_url.
C2_Witness ==
    /\ last.op = "relay"
    /\ inflight.target = "play_url"
    /\ \E p \in Listed :
          /\ Index(p) < Index(inflight.invoked[1].proto)
          /\ interfaces["Stream"][p] # None
          /\ "play_url" \notin interfaces["Stream"][p].ops

\* C3: close() invokes the close routine of every registered backend exactly
\* once, also when an earlier close routine raises.
C3_CloseInvokesEveryRoutine ==
    last.op = "close" =>
        /\ Len(last.invoked) = last.registered
        /\ [i \in DOMAIN last.invoked |-> last.invoked[i].proto]
              = Keys(protocol_handlers)

\* C4: a relayed call invokes at most one backend; when that backend's call
\* fails the failure is the result of the call and no other backend that
\* implements the operation is invoked.
C4_AtMostOneBackend ==
    /\ inflight # None => Len(inflight.invoked) = 1
    /\ last.op \in RelayTargets =>
          /\ Len(last.invoked) <= 1
          /\ last.backend = "error" =>
                last.result = "error" /\ Len(last.invoked) = 1

\* C4 witness: the call of the resolved backend failed while a backend of
\* lower priority that implements the operation was registered.
C4_Witness ==
    /\ last.op \in RelayTargets
    /\ last.backend = "error"
    /\ Len(last.invoked) = 1
    /\ \E p \in Listed :
          /\ Index(last.invoked[1].proto) < Index(p)
          /\ interfaces[last.iface][p] # None
          /\ last.op \in interfaces[last.iface][p].ops

\* C5: the service property returns the service of the first protocol of the
\* priority list that is available, and with at least one protocol added by
\* add_protocol it never raises "no service (bug)".
C5_ServiceNeverFails ==
    last.op = "service" =>
        /\ ~last.raised =>
              /\ last.service.proto \in config_services
              /\ \A p \in Listed \cap config_services :
                    Index(last.service.proto) <= Index(p)
        /\ protocol_handlers # <<>> => ~last.raised

\* C6: connect() invokes the connect routines in the order in which the
\* backends were first added with add_protocol: while it runs it has invoked
\* a prefix of that order, and when it returns normally it has invoked all.
C6_ConnectInRegistrationOrder ==
    /\ \A i \in DOMAIN connect_invoked :
          /\ i <= Len(FirstOccurrences(add_log))
          /\ connect_invoked[i].proto = FirstOccurrences(add_log)[i]
          /\ connect_invoked[i].kind = "connect"
    /\ last.op = "connect" /\ last.result = "ok" =>
          [i \in DOMAIN last.invoked |-> last.invoked[i].proto]
              = FirstOccurrences(add_log)

\* C6 witness: connect() returned normally after connecting a backend of
\* lower priority before a backend of higher priority.
C6_Witness ==
    /\ last.op = "connect"
    /\ last.result = "ok"
    /\ Len(last.invoked) >= 2
    /\ last.invoked[1].proto \in Listed
    /\ last.invoked[2].proto \in Listed
    /\ Index(last.invoked[1].proto) > Index(last.invoked[2].proto)

\* C7: the step in which an awaited connect routine fails ends connect() with
\* that failure and invokes no routine: no further connect routine and no
\* close routine of a backend already connected.
C7_ConnectFailureAborts ==
    [][connect_pc = "await" /\ last'.op = "connect"
          /\ last'.result = "ConnectionError" =>
            /\ calls' = calls
            /\ connect_pc' = "idle"
            /\ connect_invoked' = connect_invoked
            /\ last'.invoked = connect_invoked]_vars

\* C7 witness: connect() failed at a connect routine after an earlier
\* backend had connected.
C7_Witness ==
    /\ last.op = "connect"
    /\ last.result = "ConnectionError"
    /\ Len(last.invoked) >= 2
    /\ connect_pc = "idle"

\* C8: add_protocol for a protocol already added replaces its contributions:
\* the stored record is the new one and no feature outside the new record's
\* feature set stays attributed to the protocol.
C8_ReAddReplacesContributions ==
    last.op = "add_protocol" /\ last.readded =>
        /\ DictGet(protocol_handlers, last.proto) = last.setup
        /\ \A f \in DOMAIN feature_map :
              feature_map[f].proto = last.proto => f \in last.setup.features

\* C9: an existing entry of the feature map changes only in an add_mapping
\* by a protocol of strictly higher priority than the holder, which becomes
\* the holder; no entry is ever removed.
C9_OverwriteOnlyByHigherPriority ==
    [][\A f \in DOMAIN feature_map :
          /\ f \in DOMAIN feature_map'
          /\ feature_map'[f] # feature_map[f] =>
                /\ last'.op = "add_mapping"
                /\ f \in last'.features
                /\ last'.proto \in Listed
                /\ Index(last'.proto) < Index(feature_map[f].proto)
                /\ feature_map'[f].proto = last'.proto]_vars

\* C9 witness: an add_mapping has just overwritten an existing entry.
C9_Witness ==
    /\ last.op = "add_mapping"
    /\ last.overwrote # {}

C11_UnsupportedMethodFails ==
    [][/\ inflight = None
       /\ \E iface \in Interfaces, target \in RelayTargets :
             /\ target \in OpsOf(iface)
             /\ Declaring(iface, target) = {}
             /\ \/ last'.op = target
                \/ last'.op = "relay" /\ inflight'.target = target
       => /\ last'.op \in RelayTargets
          /\ last'.result = "NotSupportedError"
          /\ last'.invoked = <<>>
          /\ last'.backend = "none"
          /\ inflight' = None]_vars

\* C11 witness: launch_app was refused while a backend that implements only
\* app_list was registered for Apps.
C11_Witness ==
    /\ last.op = "launch_app"
    /\ last.result = "NotSupportedError"
    /\ last.invoked = <<>>
    /\ \E p \in Listed :
          /\ interfaces["Apps"][p] # None
          /\ interfaces["Apps"][p].ops = {"app_list"}

\* C12: reading a property-style accessor that no registered backend
\* implements does not fail and yields the documented default: device_id
\* is None.
C12_PropertyDefault ==
    last.op = "device_id" /\ Declaring("Metadata", "device_id") = {} =>
        /\ last.result = "ok"
        /\ last.value = None

C14_PushUpdaterIsMainInstance ==
    last.op = "push_updater" =>
        \A p \in Listed :
           /\ interfaces["PushUpdater"][p] # None
           /\ \A q \in Listed :
                 Index(q) < Index(p) => interfaces["PushUpdater"][q] = None
           => last.value = interfaces["PushUpdater"][p]

\* C14 witness: push_updater returned an instance that implements nothing
\* while a backend later in the list had an instance implementing start.
C14_Witness ==
    /\ last.op = "push_updater"
    /\ last.value # None
    /\ last.value.ops = {}
    /\ \E p \in Listed :
          /\ Index(last.value.proto) < Index(p)
          /\ interfaces["PushUpdater"][p] # None
          /\ interfaces["PushUpdater"][p].ops = {"start"}

\* C15: every power-state notification received from a backend has been
\* passed to the listener exactly once, with its (old, new) pair as received
\* and in the order of arrival: nothing is dropped, merged or reordered.
C15_PowerForwardedInOrder ==
    /\ Len(listener_calls) = Len(power_events)
    /\ \A i \in DOMAIN power_events :
          /\ listener_calls[i].old_state = power_events[i].old_state
          /\ listener_calls[i].new_state = power_events[i].new_state

\* C15 witness: the same notification arrived twice in a row, followed by a
\* different one, and the listener has been called three times.
C15_Witness ==
    /\ Len(power_events) = 3
    /\ power_events[1] = power_events[2]
    /\ power_events[2] # power_events[3]
    /\ Len(listener_calls) = 3

\* C16: get_feature for a feature that has no holder in the feature map
\* returns a FeatureInfo of state Unsupported with empty options, produced by
\* the facade itself.
C16_NoHolderUnsupported ==
    last.op = "get_feature" /\ last.feature \notin DOMAIN feature_map =>
        /\ last.answer.by = None
        /\ last.answer.state = "Unsupported"
        /\ last.answer.options = {}

\* C16 witness: get_feature was asked for a feature without a holder, which
\* a backend reports as Available, while the other feature has a holder.
C16_Witness ==
    /\ last.op = "get_feature"
    /\ last.feature \notin DOMAIN feature_map
    /\ feature_map # <<>>
    /\ live_state[last.feature].state = "Available"
    /\ last.answer.state = "Unsupported"

\* C17: get_feature for a feature with a holder returns what the holder
\* reports at the time of the call: state and options are the holder's
\* current ones, also when they differ from those of an earlier call.
C17_HolderStateIsLive ==
    last.op = "get_feature" /\ last.feature \in DOMAIN feature_map =>
        /\ last.answer.by = feature_map[last.feature].inst
        /\ last.answer.state = live_state[last.feature].state
        /\ last.answer.options = live_state[last.feature].options

\* C17 witness: two get_feature calls for the same feature were answered by
\* the same holder, whose state changed in between; the second answer has
\* the new state.
C17_Witness ==
    /\ last.op = "get_feature"
    /\ last.previous # None
    /\ last.previous.by # None
    /\ last.previous.by = last.answer.by
    /\ last.previous.state # last.answer.state
    /\ last.answer.state = live_state[last.feature].state

\* C18: every close() initiates the close of the session manager exactly
\* once, whatever the close routines of the backends do: also when one of
\* them raises.
C18_SessionManagerClosed ==
    last.op = "close" =>
        LET mine == SubSeq(calls, Len(calls) - Len(last.invoked), Len(calls))
        IN /\ Len(calls) > Len(last.invoked)
           /\ Cardinality({i \in DOMAIN mine : mine[i].kind = "session_close"}) = 1

\* C18 witness: a close() in which the first of two close routines raised.
C18_Witness ==
    /\ last.op = "close"
    /\ last.raised
    /\ last.registered = 2
    /\ Len(last.invoked) = 1
    /\ \E i \in DOMAIN calls : calls[i].kind = "session_close"

\* C19: a relayer has one binding per backend, the instance registered last:
\* after a registration the backend's binding is the new instance, the
\* instance it replaced is resolved for no operation, and whatever is
\* resolved at any time is the current binding of its backend.
C19_ReRegisterReplaces ==
    /\ last.op = "register" =>
          /\ interfaces[last.iface][last.proto] = last.inst
          /\ last.replaced # None /\ last.replaced # last.inst =>
                \A t \in OpsOf(last.iface) :
                   Resolve(last.iface, t) # last.replaced
    /\ \A iface \in Interfaces : \A t \in OpsOf(iface) :
          Resolve(iface, t) # None =>
             interfaces[iface][Resolve(iface, t).proto] = Resolve(iface, t)

\* C19 witness: a backend was registered again with a different instance;
\* an operation that the old and the new instance implement resolves to the
\* new one.
C19_Witness ==
    /\ last.op = "register"
    /\ last.replaced # None
    /\ last.replaced # last.inst
    /\ \E t \in last.replaced.ops \cap last.inst.ops :
          Resolve(last.iface, t) = last.inst

\* C20: turn_on and turn_off call the one instance the operation resolves to
\* with the caller's await_new_state unchanged, and the call of the facade
\* ends only in the step in which that instance's call returns or raises,
\* with that outcome.
C20_PowerForwardsAwait ==
    [][/\ inflight = None /\ inflight' # None /\ inflight'.iface = "Power" =>
             /\ inflight'.invoked = <<Resolve("Power", inflight'.target)>>
             /\ inflight'.args = [await_new_state |-> last'.given]
       /\ last'.op \in {"turn_on", "turn_off"} /\ last'.backend # "none" =>
             /\ inflight # None
             /\ inflight.target = last'.op
             /\ inflight' = None
             /\ last'.invoked = inflight.invoked
             /\ Len(last'.invoked) = 1
             /\ last'.args = inflight.args
             /\ last'.result = last'.backend
       /\ inflight # None /\ inflight.iface = "Power" /\ inflight' # None =>
             inflight' = inflight]_vars

\* C20 witness: turn_on(await_new_state=True) has returned after the call of
\* the resolved instance returned, with a second backend implementing
\* turn_on registered.
C20_Witness ==
    /\ last.op = "turn_on"
    /\ last.backend = "ok"
    /\ last.args = [await_new_state |-> TRUE]
    /\ inflight = None
    /\ Cardinality(Declaring("Power", "turn_on")) = 2

\* C21: a relayed call is resolved in the step in which it is issued, against
\* the registrations of that moment and before the backend's call starts: no
\* call is ever in flight unresolved, and a caller's next call is resolved
\* only after its previous call has ended, so resolutions follow the order
\* of issue.
C21_ResolutionAtomicInOrder ==
    [][/\ \A iface \in Interfaces : \A t \in OpsOf(iface) :
             /\ inflight' # inflight
             /\ inflight' # None
             /\ inflight'.iface = iface
             /\ inflight'.target = t
             => /\ inflight = None
                /\ interfaces' = interfaces
                /\ Resolve(iface, t) # None
                /\ inflight'.invoked = <<Resolve(iface, t)>>
       /\ \A iface \in Interfaces : \A t \in OpsOf(iface) :
             /\ inflight = None
             /\ last'.op = t
             /\ last'.iface = iface
             => /\ Resolve(iface, t) = None
                /\ last'.invoked = <<>>
                /\ inflight' = None]_vars

\* C21 witness: up has ended and play, issued next, is in flight at the
\* instance it resolved to.
C21_Witness ==
    /\ last.op = "relay"
    /\ last.after = "up"
    /\ inflight # None
    /\ inflight.target = "play"
    /\ inflight.invoked = <<Resolve("RemoteControl", "play")>>

\* C22: a close() of the facade leaves a relayed call that is in flight as
\* it is, whether its close routines return or raise; the call in flight ends
\* only in the step in which the backend's call returns or raises, with that
\* outcome.
C22_CloseLeavesCallInFlight ==
    [][/\ Len(calls') > Len(calls) /\ calls'[Len(calls) + 1].kind = "session_close"
             => inflight' = inflight
       /\ inflight # None /\ inflight' # inflight =>
             /\ inflight' = None
             /\ calls' = calls
             /\ last'.op = inflight.target
             /\ last'.backend \in {"ok", "error"}
             /\ last'.result = last'.backend]_vars

\* C22 witness: close() has run a close routine while play was in flight,
\* and play is still in flight.
C22_Witness ==
    /\ last.op = "close"
    /\ Len(last.invoked) >= 1
    /\ inflight # None
    /\ inflight.target = "play"

\* C23: artwork called with neither width nor height passes both as unset
\* (None) to the resolved backend, and an argument that is given is passed
\* unchanged.
C23_ArtworkForwardsUnset ==
    inflight # None /\ inflight.target = "artwork" /\ last.op = "relay" =>
        /\ last.given.width = Omitted /\ last.given.height = Omitted =>
              inflight.args = [width |-> None, height |-> None]
        /\ last.given.width # Omitted => inflight.args.width = last.given.width
        /\ last.given.height # Omitted => inflight.args.height = last.given.height

\* C24: the feature map changes only in an add_mapping or add_protocol for
\* a protocol that has an instance registered for Features at that moment,
\* and then only in the features passed, which get that instance; for a
\* protocol without a registered instance the map stays as it is.
C24_MappingNeedsInstance ==
    [][feature_map' # feature_map =>
          /\ last'.op \in {"add_mapping", "add_protocol"}
          /\ Get("Features", last'.proto) # None
          /\ \A f \in DOMAIN feature_map' :
                f \notin DOMAIN feature_map \/ feature_map'[f] # feature_map[f] =>
                   /\ f \in (IF last'.op = "add_mapping"
                             THEN last'.features ELSE last'.setup.features)
                   /\ feature_map'[f] =
                         [proto |-> last'.proto,
                          inst |-> Get("Features", last'.proto)]]_vars

\* C24 witness: add_protocol was called with features for a listed protocol
\* that has no Features instance registered, and none of them has a holder.
C24_Witness ==
    /\ last.op = "add_protocol"
    /\ last.proto \in Listed
    /\ last.setup.features # {}
    /\ Get("Features", last.proto) = None
    /\ \A f \in last.setup.features : f \notin DOMAIN feature_map
    /\ HasKey(protocol_handlers, last.proto)

\* C25: over add_mapping, add_protocol, connect and close, a feature that
\* has a holder keeps having one, its holder never changes to a protocol
\* later in the priority list, and get_feature for it is answered by the
\* holder, never by the facade's own Unsupported.
C25_FeatureMapMonotone ==
    [][/\ \A f \in DOMAIN feature_map :
             /\ f \in DOMAIN feature_map'
             /\ Index(feature_map'[f].proto) > 0
             /\ Index(feature_map'[f].proto) <= Index(feature_map[f].proto)
       /\ last'.op = "get_feature" /\ last'.feature \in DOMAIN feature_map =>
             /\ last'.answer.by # None
             /\ last'.answer.by = feature_map'[last'.feature].inst]_vars

\* C25 witness: a feature claimed by AirPlay and then by MRP is held by MRP
\* after a close() that ran a close routine.
C25_Witness ==
    /\ last.op = "close"
    /\ Len(last.invoked) >= 1
    /\ \E f \in DOMAIN feature_map :
          /\ claimants[f] = <<"AirPlay", "MRP">>
          /\ feature_map[f].proto = "MRP"

\* C26: connect() has at most one connect routine in flight: a step starts
\* at most one connect routine, and it does so either when connect() is
\* called or in the step in which the routine in flight has returned; when
\* that routine raises, the step starts none.
C26_ConnectOneAtATime ==
    [][LET new == SubSeq(calls', Len(calls) + 1, Len(calls'))
           started == {i \in DOMAIN new : new[i].kind = "connect"}
       IN /\ Cardinality(started) <= 1
          /\ started # {} =>
                /\ connect_pc' = "await"
                /\ last'.op = "connecting"
                /\ connect_invoked' =
                      Append(IF connect_pc = "idle" THEN <<>> ELSE connect_invoked,
                             new[1])
          /\ connect_invoked' # connect_invoked /\ connect_invoked' # <<>> =>
                started # {}
          /\ connect_pc' = "await" => connect_invoked' # <<>>
          /\ last'.op = "connect" /\ last'.result # "ok" => started = {}]_vars

\* C26 witness: the second connect routine is in flight, started after the
\* first had returned.
C26_Witness ==
    /\ connect_pc = "await"
    /\ last.op = "connecting"
    /\ Len(connect_invoked) = 2
    /\ connect_invoked[1] # connect_invoked[2]

\* C27: close() leaves the protocol handlers and the feature map as they
\* are, and a close() after an earlier close() invokes the close routine of
\* every registered protocol again.
C27_SecondCloseInvokesAll ==
    [][last'.op = "close" /\ Len(calls') > Len(calls) =>
          /\ protocol_handlers' = protocol_handlers
          /\ feature_map' = feature_map
          /\ (\E i \in DOMAIN calls : calls[i].kind = "session_close") =>
                last'.invoked =
                   [i \in DOMAIN protocol_handlers |->
                       RoutineOf("close", protocol_handlers[i])]]_vars

\* C28: a protocol added again keeps the position of its first add_protocol
\* in the order of connect() and close(), the routines invoked are those of
\* its latest record, and each connect() and each close() invokes exactly
\* one routine per registered protocol.
C28_ReAddKeepsPosition ==
    /\ Keys(protocol_handlers) = FirstOccurrences(add_log)
    /\ last.op = "close" =>
          last.invoked = [i \in DOMAIN protocol_handlers |->
                             RoutineOf("close", protocol_handlers[i])]
    /\ last.op = "connect" =>
          last.invoked = [i \in DOMAIN protocol_handlers |->
                             RoutineOf("connect", protocol_handlers[i])]


\* The events of the given kind in the log of _handle_commands
CliEvents(kind) == SelectSeq(cli.events, LAMBDA e : e.ev = kind)

\* The code _handle_commands is to return after the events so far: the code
\* of the first command that returned non-zero, and 0 when there is none
FirstNonZero ==
    LET ends == SelectSeq(cli.events, LAMBDA e : e.ev = "end" /\ e.ret # 0)
    IN IF ends = <<>> THEN 0 ELSE ends[1].ret

====
